---------------------------- MODULE Spec2Model ----------------------------
(***************************************************************************)
(* Model of the Streakwiz bot: the models module (src/unnamed/part_000)    *)
(* with the Streak model and its beforeSave hook, the trigger word         *)
(* setters, the withRetry helper and the startup migration                 *)
(* (migrateDatabase, restoreFromBackup, initializeDatabase); the           *)
(* progressive raid bonus as README.md documents it; and the refresh       *)
(* command (src/commands/refresh.js).                                       *)
(*                                                                         *)
(* The specifications share the module, one per part of the program:       *)
(*   SpecStreak   the Streaks table and the saves of Streak instances      *)
(*   SpecRetry    one call of withRetry                                    *)
(*   SpecMigrate  initializeDatabase, run at every start of the process    *)
(*   SpecWords    one assignment to triggerWords or triggerWord            *)
(*   SpecBonus    one computation of the progressive bonus                 *)
(*   SpecRefresh  one call of execute of the refresh command               *)
(***************************************************************************)
EXTENDS Integers, Sequences, FiniteSets, TLC

VARIABLES
    \* ---- Streaks table and request handlers
    streaks,      \* the rows of table "Streaks", in insertion order (id = position)
    hpc,          \* per handler: "idle" | "absent" (looked the triple up, found no row)
    hkey,         \* per handler: the (guildId, userId, triggerWord) it looked up
    \* ---- withRetry
    rPc,          \* "idle" | "loop" | "wait" | "returned" | "thrown"
    maxRetries,   \* the maxRetries argument of the call
    attempt,      \* the loop variable
    lastError,    \* the local lastError
    rHistory,     \* outcome of every invocation of operation, in order
    rDelays,      \* every delay that was waited for, in order
    rWait,        \* the delay being waited for while rPc = "wait"
    rResult,      \* what withRetry returned or threw
    \* ---- the database, as committed
    tables,       \* the tables that exist
    columns,      \* per table: its columns
    data,         \* per table: its rows
    \* ---- the migration transaction
    txState,      \* "none" | "open" | "commit" | "rollback" (Transaction.finished)
    txColumns,    \* <<table, column>> added inside the transaction, not committed
    txStreaks,    \* the rows of Streaks as the transaction sees them
    \* ---- initializeDatabase / migrateDatabase
    pc,           \* the statement the startup is at
    guildConfigExists, streaksExists,     \* locals of migrateDatabase
    guildConfigBackup, streaksBackup,     \* locals of migrateDatabase
    colIdx,       \* position in columnsToAdd / requiredColumns
    log,          \* the statements this run sent to the database, with their outcome
    dbFailed,     \* the database failed a query or statement of this run
    prevCommitted, \* the previous run of the process committed its migration
    \* ---- assignments to the trigger word attributes
    wPc,          \* "idle" | "assign" | "assigned" | "threw" | "rewritten"
    wTarget,      \* the attribute assigned to: "triggerWords" | "triggerWord"
    wValue,       \* the value assigned
    gcTriggerWords,  \* dataValue triggerWords of a GuildConfig instance
    stTriggerWord,   \* dataValue triggerWord of a Streak instance
    wPrev,        \* the dataValue before the value read from the instance was written back
    \* ---- the progressive bonus of a raid
    bPc,          \* "idle" | "call" | "done"
    targetCount,  \* the streak count of the raid's target
    bonus,        \* the progressive bonus computed, in percent
    \* ---- the refresh command
    rfPc,         \* the statement execute is at
    member,       \* interaction.member: "admin" | "member" | "none"
    directory,    \* the files of the commands directory, in readdir order
    clientCommands,  \* interaction.client.commands: the entries of the Map, in order
    appCommands,  \* the commands registered with the application
    commandFiles, \* the local commandFiles: positions in directory
    fileIdx,      \* position of the reload loop in commandFiles
    commands,     \* the local commands: the list built for registration
    replies,      \* the calls of deferReply and editReply, with their outcome
    seen,         \* client.commands as the last other handler that ran found it
    commands0,    \* client.commands when execute was called
    appCommands0  \* the registered commands when execute was called

streakVars == <<streaks, hpc, hkey>>
retryVars  == <<rPc, maxRetries, attempt, lastError, rHistory, rDelays, rWait, rResult>>
dbVars     == <<tables, columns, data>>
txVars     == <<txState, txColumns, txStreaks>>
localVars  == <<guildConfigExists, streaksExists, guildConfigBackup, streaksBackup, colIdx>>
migVars    == <<dbVars, txVars, localVars, pc, log, dbFailed, prevCommitted>>
wordVars   == <<wPc, wTarget, wValue, gcTriggerWords, stTriggerWord, wPrev>>
bonusVars  == <<bPc, targetCount, bonus>>
refreshVars == <<rfPc, member, directory, clientCommands, appCommands, commandFiles,
                 fileIdx, commands, replies, seen, commands0, appCommands0>>
restVars   == <<wordVars, bonusVars, refreshVars>>

Null == "null"

---------------------------------------------------------------------------
(* Bounds of the model *)

\* largest count a save writes
MaxCount == 2
\* largest number of rows of Streaks the model holds
MaxRows == 2
\* largest maxRetries argument handed to withRetry
MaxRetriesArg == 4
\* longest string assigned to Streak.triggerWord
MaxWordLen == 3
\* longest list assigned to GuildConfig.triggerWords
MaxWords == 2
\* largest streak count of a raid target
MaxTargetCount == 120
\* largest number of files in the commands directory besides refresh.js
MaxFiles == 2

---------------------------------------------------------------------------
(* The Streak model: part_000 lines 61-117 *)

Guilds == {"g1"}
Users  == {"u1", "u2"}
Words  == {"daily"}
Handlers == {"h1", "h2"}
NoKey == <<Null, Null, Null>>

\* Streak.count defaultValue
DefaultCount == 1
\* Streak.bestStreak defaultValue
DefaultBestStreak == 1
\* Streak.streakStreak defaultValue
DefaultStreakStreak == 0

\* The unique keys sequelize.define('Streak', ...) declares: the primary key id
\* and nothing else (no indexes option, no unique: true on any attribute).
StreakUniqueKeys == { {"id"} }

\* A freshly built instance: the attributes given, the defaults for the rest.
NewStreak(id, g, u, w) ==
    [id |-> id, guildId |-> g, userId |-> u, triggerWord |-> w,
     count |-> DefaultCount, bestStreak |-> DefaultBestStreak,
     streakStreak |-> DefaultStreakStreak, lastStreakDate |-> Null]

\* Faulty variants of the hook: one never raises bestStreak, one copies every
\* changed count into it.
beforeSave_NoRaise(streak, countChanged) == streak

beforeSave_Overwrite(streak, countChanged) ==
    IF countChanged THEN [streak EXCEPT !.bestStreak = streak.count] ELSE streak

\* Another: bestStreak follows count whenever count is not above the default.
beforeSave_Sync(streak, countChanged) ==
    IF streak.count > streak.bestStreak \/ streak.count < DefaultCount
    THEN [streak EXCEPT !.bestStreak = streak.count]
    ELSE streak

\* Streak.addHook('beforeSave', ...): streak.changed('count') is countChanged.
beforeSave(streak, countChanged) ==
    IF countChanged /\ streak.count > streak.bestStreak
    THEN [streak EXCEPT !.bestStreak = streak.count]
    ELSE streak

\* The database accepts a row unless it agrees with a stored row on every
\* attribute of one of the table's unique keys.
InsertAllowed(table, row) ==
    \A key \in StreakUniqueKeys :
        \A i \in 1..Len(table) : \E a \in key : table[i][a] # row[a]

SameTriple(row, k) ==
    /\ row.guildId = k[1]
    /\ row.userId = k[2]
    /\ row.triggerWord = k[3]

StreakInit ==
    /\ streaks = <<>>
    /\ hpc = [p \in Handlers |-> "idle"]
    /\ hkey = [p \in Handlers |-> NoKey]

\* getOrCreate, first half: look the triple up. An existing record is returned
\* as it is; otherwise the handler goes on to create one.
FindStreak(p, g, u, w) ==
    /\ hpc[p] = "idle"
    /\ IF \E i \in 1..Len(streaks) : SameTriple(streaks[i], <<g, u, w>>)
       THEN UNCHANGED <<hpc, hkey>>
       ELSE /\ hpc' = [hpc EXCEPT ![p] = "absent"]
            /\ hkey' = [hkey EXCEPT ![p] = <<g, u, w>>]
    /\ UNCHANGED streaks
    /\ UNCHANGED <<retryVars, migVars, restVars>>

\* getOrCreate, second half: Streak.create of the triple. The id is the next
\* value of the autoincrement sequence; beforeSave runs on the new instance,
\* whose count is the untouched default.
CreateStreak(p) ==
    /\ hpc[p] = "absent"
    /\ Len(streaks) < MaxRows
    /\ LET row == beforeSave(NewStreak(Len(streaks) + 1,
                                       hkey[p][1], hkey[p][2], hkey[p][3]), FALSE)
       IN  IF InsertAllowed(streaks, row)
           THEN streaks' = Append(streaks, row)
           ELSE UNCHANGED streaks
    /\ hpc' = [hpc EXCEPT ![p] = "idle"]
    /\ hkey' = [hkey EXCEPT ![p] = NoKey]
    /\ UNCHANGED <<retryVars, migVars, restVars>>

\* One ledger mutation (trigger increment, gamble, raid): count, streakStreak
\* and lastStreakDate are assigned on the instance of row i and it is saved.
\* An assignment of a different value marks count changed; touched stands for
\* an assignment that left the value where it was, on an instance whose count
\* had been assigned before.
SaveStreak(i, c, ss, d, touched) ==
    /\ i \in 1..Len(streaks)
    /\ touched => c = streaks[i].count
    /\ LET old == streaks[i]
           set == [old EXCEPT !.count = c, !.streakStreak = ss, !.lastStreakDate = d]
       IN  streaks' = [streaks EXCEPT ![i] = beforeSave(set, c # old.count \/ touched)]
    /\ UNCHANGED <<hpc, hkey>>
    /\ UNCHANGED <<retryVars, migVars, restVars>>

\* reset: count and streakStreak to 0, lastStreakDate cleared, then save.
ResetStreak(i) ==
    /\ i \in 1..Len(streaks)
    /\ LET old == streaks[i]
           set == [old EXCEPT !.count = 0, !.streakStreak = 0, !.lastStreakDate = Null]
       IN  streaks' = [streaks EXCEPT ![i] = beforeSave(set, old.count # 0)]
    /\ UNCHANGED <<hpc, hkey>>
    /\ UNCHANGED <<retryVars, migVars, restVars>>

\* What a trigger match leaves in (streakStreak, lastStreakDate): nothing yet,
\* or one qualifying day.
DayMarks == {<<0, Null>>, <<1, "d1">>}

NextStreak ==
    \/ \E p \in Handlers, g \in Guilds, u \in Users, w \in Words : FindStreak(p, g, u, w)
    \/ \E p \in Handlers : CreateStreak(p)
    \/ \E i \in 1..MaxRows, c \in 0..MaxCount, m \in DayMarks, touched \in BOOLEAN :
          SaveStreak(i, c, m[1], m[2], touched)
    \/ \E i \in 1..MaxRows : ResetStreak(i)

---------------------------------------------------------------------------
(* withRetry: part_000 lines 12-22 and 233-254 *)

\* retryConfig.maxRetries, the default of withRetry's second parameter
retryConfigMaxRetries == 3
\* retryConfig.retryDelay, in milliseconds
retryDelay == 1000

\* The maxRetries arguments tried: the default and every count up to the bound.
RetryArgs == (0..MaxRetriesArg) \cup {retryConfigMaxRetries}

ConnectionErrors ==
    {"SequelizeConnectionError", "SequelizeConnectionRefusedError",
     "SequelizeHostNotFoundError", "SequelizeHostNotReachableError"}

\* Errors an operation may throw that are no connection errors.
OtherErrors == {"SequelizeTimeoutError", "SequelizeUniqueConstraintError"}

ErrorNames == ConnectionErrors \cup OtherErrors

\* What one invocation of operation() ends with: a value, or an error thrown.
\* at tells the invocations apart, so that "the same error" can be said.
Success(k) == [kind |-> "ok", name |-> "value", at |-> k]
Failure(n, k) == [kind |-> "error", name |-> n, at |-> k]
NoError == [kind |-> "undefined", name |-> "undefined", at |-> 0]

\* Faulty variants of retryOnError and of the delay.
retryOnError_Always(error) == TRUE

retryOnError_Never(error) == FALSE

Backoff_Constant(k) == retryDelay

\* retryConfig.retryOnError
retryOnError(error) ==
    \/ error.name = "SequelizeConnectionError"
    \/ error.name = "SequelizeConnectionRefusedError"
    \/ error.name = "SequelizeHostNotFoundError"
    \/ error.name = "SequelizeHostNotReachableError"

\* The delay of line 245: retryConfig.retryDelay * attempt
Backoff(k) == retryDelay * k

RetryInit ==
    /\ rPc = "idle"
    /\ maxRetries = 0
    /\ attempt = 0
    /\ lastError = NoError
    /\ rHistory = <<>>
    /\ rDelays = <<>>
    /\ rWait = 0
    /\ rResult = NoError

\* withRetry(operation, m) is called: let lastError; attempt = 1.
CallWithRetry(m) ==
    /\ rPc = "idle"
    /\ rPc' = "loop"
    /\ maxRetries' = m
    /\ attempt' = 1
    /\ UNCHANGED <<lastError, rHistory, rDelays, rWait, rResult>>
    /\ UNCHANGED <<streakVars, migVars, restVars>>

\* Faulty variant of the try block: the result of operation() is awaited and
\* not returned, and the loop goes on.
AttemptSucceeds_NoReturn ==
    /\ rPc = "loop"
    /\ attempt <= maxRetries
    /\ rHistory' = Append(rHistory, Success(attempt))
    /\ attempt' = attempt + 1
    /\ UNCHANGED <<rPc, maxRetries, lastError, rDelays, rWait, rResult>>
    /\ UNCHANGED <<streakVars, migVars, restVars>>

\* One turn of the loop: operation() is invoked and returns.
AttemptSucceeds ==
    /\ rPc = "loop"
    /\ attempt <= maxRetries
    /\ rHistory' = Append(rHistory, Success(attempt))
    /\ rResult' = Success(attempt)
    /\ rPc' = "returned"
    /\ UNCHANGED <<maxRetries, attempt, lastError, rDelays, rWait>>
    /\ UNCHANGED <<streakVars, migVars, restVars>>

\* One turn of the loop: operation() is invoked and throws error n.
AttemptFails(n) ==
    /\ rPc = "loop"
    /\ attempt <= maxRetries
    /\ LET error == Failure(n, attempt)
       IN  /\ rHistory' = Append(rHistory, error)
           /\ lastError' = error
           /\ IF retryOnError(error) /\ attempt < maxRetries
              THEN /\ rPc' = "wait"
                   /\ rWait' = Backoff(attempt)
                   /\ UNCHANGED rResult
              ELSE /\ rPc' = "thrown"
                   /\ rResult' = error
                   /\ UNCHANGED rWait
    /\ UNCHANGED <<maxRetries, attempt, rDelays>>
    /\ UNCHANGED <<streakVars, migVars, restVars>>

\* The timer of line 245 fires: continue with the next attempt.
TimerFires ==
    /\ rPc = "wait"
    /\ rDelays' = Append(rDelays, rWait)
    /\ attempt' = attempt + 1
    /\ rPc' = "loop"
    /\ UNCHANGED <<maxRetries, lastError, rHistory, rWait, rResult>>
    /\ UNCHANGED <<streakVars, migVars, restVars>>

\* The loop ends without having returned or thrown: throw lastError.
LoopExhausted ==
    /\ rPc = "loop"
    /\ attempt > maxRetries
    /\ rResult' = lastError
    /\ rPc' = "thrown"
    /\ UNCHANGED <<maxRetries, attempt, lastError, rHistory, rDelays, rWait>>
    /\ UNCHANGED <<streakVars, migVars, restVars>>

NextRetry ==
    \/ \E m \in RetryArgs : CallWithRetry(m)
    \/ AttemptSucceeds
    \/ \E n \in ErrorNames : AttemptFails(n)
    \/ TimerFires
    \/ LoopExhausted

---------------------------------------------------------------------------
(* The startup migration: part_000 lines 119-231 and 256-334 *)

GC == "GuildConfigs"
ST == "Streaks"
TableNames == {GC, ST}

\* The attributes of the two models (lines 25-59 and 62-110).
GuildConfigModel == {"guildId", "triggerWords", "streakLimit", "streakStreakEnabled"}
StreakModel ==
    {"id", "guildId", "userId", "triggerWord", "count", "bestStreak",
     "streakStreak", "lastStreakDate", "lastUpdated"}
ModelColumns(t) == IF t = GC THEN GuildConfigModel ELSE StreakModel

\* columnsToAdd (lines 159-163) and the keys of requiredColumns (lines 186-196),
\* in the order the loops visit them.
columnsToAdd == <<"streakStreak", "lastStreakDate", "bestStreak">>
requiredColumns ==
    <<"id", "guildId", "userId", "triggerWord", "count", "bestStreak",
      "streakStreak", "lastStreakDate", "lastUpdated">>

\* A row of Streaks: its count and its bestStreak; NoValue, a marker below
\* every count, where the table has no bestStreak column.
NoValue == 0 - 1
StreakRow(c, b) == [count |-> c, bestStreak |-> b]

\* The columns an old installation may lack, per table.
OptionalColumns(t) ==
    IF t = GC THEN {"streakStreakEnabled"}
    ELSE {"streakStreak", "lastStreakDate", "bestStreak", "lastUpdated"}

Entry(op, arg, ok) == [op |-> op, arg |-> arg, ok |-> ok]

\* Faulty variant of checkColumnExists: the query matches no column of
\* GuildConfigs.
checkColumnExists_StreaksOnly(t, c, ok) == ok /\ t = ST /\ c \in columns[t]

\* checkTableExists: the query runs on the pool, outside the transaction; an
\* error of the query is caught and answered false.
checkTableExists(t, ok) == ok /\ t \in tables

\* checkColumnExists: likewise; it sees the committed columns only.
checkColumnExists(t, c, ok) == ok /\ c \in columns[t]

\* The columns of t as the statements of the transaction see them.
TxView(t) == columns[t] \cup {c \in ModelColumns(t) : <<t, c>> \in txColumns}

\* ALTER TABLE t ADD COLUMN c succeeds when the database fails nothing (ok) and
\* t has no column c yet; PostgreSQL rejects a duplicate column.
AddColumnSucceeds(t, c, ok) == ok /\ c \notin TxView(t)

\* ADD COLUMN "bestStreak" INTEGER NOT NULL DEFAULT 1 fills the existing rows.
FillDefault(rows, c) ==
    IF c = "bestStreak"
    THEN [i \in 1..Len(rows) |-> [rows[i] EXCEPT !.bestStreak = DefaultBestStreak]]
    ELSE rows

\* Faulty variant of the UPDATE: it matches no row.
UpdateBestStreakRows_None(rows) == rows

\* UPDATE "Streaks" SET "bestStreak" = "count" WHERE "bestStreak" < "count"
UpdateBestStreakRows(rows) ==
    [i \in 1..Len(rows) |->
        IF rows[i].bestStreak < rows[i].count
        THEN [rows[i] EXCEPT !.bestStreak = rows[i].count]
        ELSE rows[i]]

MigIdle ==
    /\ txState = "none"
    /\ txColumns = {}
    /\ txStreaks = <<>>
    /\ pc = "start"
    /\ guildConfigExists = FALSE
    /\ streaksExists = FALSE
    /\ guildConfigBackup = <<>>
    /\ streaksBackup = <<>>
    /\ colIdx = 0
    /\ log = <<>>
    /\ dbFailed = FALSE

\* The database of a process that never ran: used where the migration is idle.
DbEmpty ==
    /\ tables = {}
    /\ columns = [t \in TableNames |-> {}]
    /\ data = [t \in TableNames |-> <<>>]
    /\ prevCommitted = FALSE

\* The databases a start may find: each table absent, or present with the
\* columns of some older version and with rows that version wrote.
MigInit ==
    /\ MigIdle
    /\ prevCommitted = FALSE
    /\ tables \in SUBSET TableNames
    /\ \E gcMissing \in SUBSET OptionalColumns(GC), stMissing \in SUBSET OptionalColumns(ST) :
          columns = [t \in TableNames |->
                        IF t \notin tables THEN {}
                        ELSE IF t = GC THEN GuildConfigModel \ gcMissing
                        ELSE StreakModel \ stMissing]
    /\ \E gcRows \in {<<>>, <<[guildId |-> "g1"]>>},
          stRows \in {<<>>} \cup {<<StreakRow(c, b)>> : c \in 1..MaxCount, b \in 1..MaxCount} :
          data = [t \in TableNames |->
                    IF t \notin tables THEN <<>>
                    ELSE IF t = GC THEN gcRows
                    ELSE IF "bestStreak" \in columns[ST] THEN stRows
                    ELSE [i \in 1..Len(stRows) |-> StreakRow(stRows[i].count, NoValue)]]

\* const transaction = await sequelize.transaction()   (line 121, outside try)
BeginTransaction(ok) ==
    /\ pc = "start"
    /\ log' = Append(log, Entry("begin", "", ok))
    /\ IF ok
       THEN /\ txState' = "open"
            /\ txStreaks' = data[ST]
            /\ pc' = "checkGuildConfigs"
       ELSE /\ pc' = "rejected"
            /\ UNCHANGED <<txState, txStreaks>>
    /\ UNCHANGED <<dbVars, txColumns, localVars, prevCommitted>>
    /\ dbFailed' = (dbFailed \/ ~ok)
    /\ UNCHANGED <<streakVars, retryVars, restVars>>

\* line 127
CheckGuildConfigsTable(ok) ==
    /\ pc = "checkGuildConfigs"
    /\ guildConfigExists' = checkTableExists(GC, ok)
    /\ dbFailed' = (dbFailed \/ ~ok)
    /\ pc' = "checkStreaks"
    /\ UNCHANGED <<dbVars, txVars, streaksExists, guildConfigBackup, streaksBackup,
                   colIdx, log, prevCommitted>>
    /\ UNCHANGED <<streakVars, retryVars, restVars>>

\* lines 128-134: the second check, then the branch on both answers
CheckStreaksTable(ok) ==
    /\ pc = "checkStreaks"
    /\ streaksExists' = checkTableExists(ST, ok)
    /\ dbFailed' = (dbFailed \/ ~ok)
    /\ pc' = IF ~guildConfigExists \/ ~streaksExists' THEN "skipCommit"
             ELSE "backupGuildConfigs"
    /\ UNCHANGED <<dbVars, txVars, guildConfigExists, guildConfigBackup, streaksBackup,
                   colIdx, log, prevCommitted>>
    /\ UNCHANGED <<streakVars, retryVars, restVars>>

\* line 132: await transaction.commit(); return. A throw goes to the outer catch.
SkipCommit(ok) ==
    /\ pc = "skipCommit"
    /\ log' = Append(log, Entry("commit", "skip", ok))
    /\ txState' = "commit"
    /\ pc' = IF ok THEN "sync" ELSE "outerRollback"
    /\ UNCHANGED <<dbVars, txColumns, txStreaks, localVars, prevCommitted>>
    /\ dbFailed' = (dbFailed \/ ~ok)
    /\ UNCHANGED <<streakVars, retryVars, restVars>>

\* line 138: backupTable('GuildConfigs', transaction); it rethrows an error
BackupGuildConfigs(ok) ==
    /\ pc = "backupGuildConfigs"
    /\ log' = Append(log, Entry("backup", GC, ok))
    /\ IF ok
       THEN /\ guildConfigBackup' = data[GC]
            /\ pc' = "backupStreaks"
       ELSE /\ pc' = "outerRollback"
            /\ UNCHANGED guildConfigBackup
    /\ UNCHANGED <<dbVars, txVars, guildConfigExists, streaksExists, streaksBackup,
                   colIdx, prevCommitted>>
    /\ dbFailed' = (dbFailed \/ ~ok)
    /\ UNCHANGED <<streakVars, retryVars, restVars>>

\* line 139: backupTable('Streaks', transaction)
BackupStreaks(ok) ==
    /\ pc = "backupStreaks"
    /\ log' = Append(log, Entry("backup", ST, ok))
    /\ IF ok
       THEN /\ streaksBackup' = txStreaks
            /\ pc' = "checkStreakStreakEnabled"
       ELSE /\ pc' = "outerRollback"
            /\ UNCHANGED streaksBackup
    /\ UNCHANGED <<dbVars, txVars, guildConfigExists, streaksExists, guildConfigBackup,
                   colIdx, prevCommitted>>
    /\ dbFailed' = (dbFailed \/ ~ok)
    /\ UNCHANGED <<streakVars, retryVars, restVars>>

\* lines 146-147
CheckStreakStreakEnabled(ok) ==
    /\ pc = "checkStreakStreakEnabled"
    /\ dbFailed' = (dbFailed \/ ~ok)
    /\ IF ~checkColumnExists(GC, "streakStreakEnabled", ok)
       THEN pc' = "addStreakStreakEnabled" /\ UNCHANGED colIdx
       ELSE pc' = "checkColumnToAdd" /\ colIdx' = 1
    /\ UNCHANGED <<dbVars, txVars, guildConfigExists, streaksExists, guildConfigBackup,
                   streaksBackup, log, prevCommitted>>
    /\ UNCHANGED <<streakVars, retryVars, restVars>>

\* An ADD COLUMN statement of the transaction: logged with whether the table,
\* as the transaction sees it, had the column already.
IssueAddColumn(t, c, ok, next, nextIdx) ==
    /\ log' = Append(log, Entry("addColumn", <<t, c, c \in TxView(t)>>,
                                AddColumnSucceeds(t, c, ok)))
    /\ IF AddColumnSucceeds(t, c, ok)
       THEN /\ txColumns' = txColumns \cup {<<t, c>>}
            /\ txStreaks' = IF t = ST THEN FillDefault(txStreaks, c) ELSE txStreaks
            /\ pc' = next
            /\ colIdx' = nextIdx
       ELSE /\ pc' = "innerRollback"
            /\ UNCHANGED <<txColumns, txStreaks, colIdx>>
    /\ UNCHANGED <<dbVars, txState, guildConfigExists, streaksExists, guildConfigBackup,
                   streaksBackup, prevCommitted>>
    /\ dbFailed' = (dbFailed \/ ~ok)
    /\ UNCHANGED <<streakVars, retryVars, restVars>>

\* lines 148-152
AddStreakStreakEnabled(ok) ==
    /\ pc = "addStreakStreakEnabled"
    /\ IssueAddColumn(GC, "streakStreakEnabled", ok, "checkColumnToAdd", 1)

\* Where the loop over columnsToAdd goes after column colIdx.
AfterColumnToAdd == IF colIdx < Len(columnsToAdd) THEN "checkColumnToAdd" ELSE "update"
AfterColumnToAddIdx == IF colIdx < Len(columnsToAdd) THEN colIdx + 1 ELSE 0

\* lines 165-167
CheckColumnToAdd(ok) ==
    /\ pc = "checkColumnToAdd"
    /\ dbFailed' = (dbFailed \/ ~ok)
    /\ IF ~checkColumnExists(ST, columnsToAdd[colIdx], ok)
       THEN pc' = "addColumnToAdd" /\ UNCHANGED colIdx
       ELSE pc' = AfterColumnToAdd /\ colIdx' = AfterColumnToAddIdx
    /\ UNCHANGED <<dbVars, txVars, guildConfigExists, streaksExists, guildConfigBackup,
                   streaksBackup, log, prevCommitted>>
    /\ UNCHANGED <<streakVars, retryVars, restVars>>

\* lines 168-172
AddColumnToAdd(ok) ==
    /\ pc = "addColumnToAdd"
    /\ IssueAddColumn(ST, columnsToAdd[colIdx], ok, AfterColumnToAdd, AfterColumnToAddIdx)

\* lines 180-183; the statement needs the column it writes
UpdateBestStreak(ok) ==
    /\ pc = "update"
    /\ LET done == ok /\ "bestStreak" \in TxView(ST)
       IN  /\ log' = Append(log, Entry("update", ST, done))
           /\ IF done
              THEN /\ txStreaks' = UpdateBestStreakRows(txStreaks)
                   /\ pc' = "checkRequiredColumn"
                   /\ colIdx' = 1
              ELSE /\ pc' = "innerRollback"
                   /\ UNCHANGED <<txStreaks, colIdx>>
    /\ UNCHANGED <<dbVars, txState, txColumns, guildConfigExists, streaksExists,
                   guildConfigBackup, streaksBackup, prevCommitted>>
    /\ dbFailed' = (dbFailed \/ ~ok)
    /\ UNCHANGED <<streakVars, retryVars, restVars>>

AfterRequiredColumn == IF colIdx < Len(requiredColumns) THEN "checkRequiredColumn" ELSE "commit"
AfterRequiredColumnIdx == IF colIdx < Len(requiredColumns) THEN colIdx + 1 ELSE 0

\* lines 198-200
CheckRequiredColumn(ok) ==
    /\ pc = "checkRequiredColumn"
    /\ dbFailed' = (dbFailed \/ ~ok)
    /\ IF ~checkColumnExists(ST, requiredColumns[colIdx], ok)
       THEN pc' = "addRequiredColumn" /\ UNCHANGED colIdx
       ELSE pc' = AfterRequiredColumn /\ colIdx' = AfterRequiredColumnIdx
    /\ UNCHANGED <<dbVars, txVars, guildConfigExists, streaksExists, guildConfigBackup,
                   streaksBackup, log, prevCommitted>>
    /\ UNCHANGED <<streakVars, retryVars, restVars>>

\* lines 201-205
AddRequiredColumn(ok) ==
    /\ pc = "addRequiredColumn"
    /\ IssueAddColumn(ST, requiredColumns[colIdx], ok, AfterRequiredColumn, AfterRequiredColumnIdx)

\* line 210: await transaction.commit(). The transaction is finished whether
\* the commit is acknowledged or not; a commit that fails leaves the database
\* in either state (applied: the changes were made durable before the failure).
CommitMigration(ok, applied) ==
    /\ pc = "commit"
    /\ ok => applied
    /\ log' = Append(log, Entry("commit", "migration", ok))
    /\ txState' = "commit"
    /\ IF applied
       THEN /\ columns' = [t \in TableNames |-> TxView(t)]
            /\ data' = [data EXCEPT ![ST] = txStreaks]
       ELSE UNCHANGED <<columns, data>>
    /\ txColumns' = {}
    /\ pc' = IF ok THEN "sync" ELSE "innerRollback"
    /\ UNCHANGED <<tables, txStreaks, localVars, prevCommitted>>
    /\ dbFailed' = (dbFailed \/ ~ok)
    /\ UNCHANGED <<streakVars, retryVars, restVars>>

\* transaction.rollback() throws when the transaction is finished already, and
\* when the database fails the ROLLBACK; the changes of the transaction are
\* gone either way.
RollbackSucceeds(ok) == ok /\ txState = "open"

\* line 214, the inner catch: a throw of rollback() leaves it for the outer catch
InnerRollback(ok) ==
    /\ pc = "innerRollback"
    /\ log' = Append(log, Entry("rollback", txState, RollbackSucceeds(ok)))
    /\ txState' = IF txState = "open" THEN "rollback" ELSE txState
    /\ txColumns' = {}
    /\ pc' = IF RollbackSucceeds(ok) THEN "restoreGuildConfigs" ELSE "outerRollback"
    /\ UNCHANGED <<dbVars, txStreaks, localVars, prevCommitted>>
    /\ dbFailed' = (dbFailed \/ ~ok)
    /\ UNCHANGED <<streakVars, retryVars, restVars>>

\* restoreFromBackup(backup, t), lines 299-318: DELETE, then INSERT of the
\* backup when it has rows; each its own statement outside any transaction.
\* An error is rethrown, and the caller's catch (lines 222-224) logs it and
\* goes on to the end of migrateDatabase, which returns.
RestoreTable == IF pc \in {"restoreGuildConfigs", "insertGuildConfigs"} THEN GC ELSE ST
RestoreBackup == IF RestoreTable = GC THEN guildConfigBackup ELSE streaksBackup
AfterRestore == IF RestoreTable = GC THEN "restoreStreaks" ELSE "sync"

\* line 302
RestoreDelete(ok) ==
    /\ pc \in {"restoreGuildConfigs", "restoreStreaks"}
    /\ log' = Append(log, Entry("delete", RestoreTable, ok))
    /\ IF ok
       THEN /\ data' = [data EXCEPT ![RestoreTable] = <<>>]
            /\ pc' = IF Len(RestoreBackup) > 0
                     THEN (IF RestoreTable = GC THEN "insertGuildConfigs" ELSE "insertStreaks")
                     ELSE AfterRestore
       ELSE /\ pc' = "sync"
            /\ UNCHANGED data
    /\ UNCHANGED <<tables, columns, txVars, localVars, prevCommitted>>
    /\ dbFailed' = (dbFailed \/ ~ok)
    /\ UNCHANGED <<streakVars, retryVars, restVars>>

\* lines 305-312
RestoreInsert(ok) ==
    /\ pc \in {"insertGuildConfigs", "insertStreaks"}
    /\ log' = Append(log, Entry("insert", RestoreTable, ok))
    /\ IF ok
       THEN /\ data' = [data EXCEPT ![RestoreTable] = RestoreBackup]
            /\ pc' = AfterRestore
       ELSE /\ pc' = "sync"
            /\ UNCHANGED data
    /\ UNCHANGED <<tables, columns, txVars, localVars, prevCommitted>>
    /\ dbFailed' = (dbFailed \/ ~ok)
    /\ UNCHANGED <<streakVars, retryVars, restVars>>

\* lines 226-229, the outer catch: rollback, then throw; migrateDatabase rejects
\* with the error or with the one rollback() throws, and initializeDatabase
\* (lines 330-333) rethrows it.
OuterRollback(ok) ==
    /\ pc = "outerRollback"
    /\ log' = Append(log, Entry("rollback", txState, RollbackSucceeds(ok)))
    /\ txState' = IF txState = "open" THEN "rollback" ELSE txState
    /\ txColumns' = {}
    /\ pc' = "rejected"
    /\ UNCHANGED <<dbVars, txStreaks, localVars, prevCommitted>>
    /\ dbFailed' = (dbFailed \/ ~ok)
    /\ UNCHANGED <<streakVars, retryVars, restVars>>

\* line 328: sequelize.sync({ alter: false }) creates the tables that do not
\* exist, from the models, and leaves the others as they are.
SyncModels(ok) ==
    /\ pc = "sync"
    /\ log' = Append(log, Entry("sync", "", ok))
    /\ IF ok
       THEN /\ tables' = TableNames
            /\ columns' = [t \in TableNames |->
                             IF t \in tables THEN columns[t] ELSE ModelColumns(t)]
            /\ pc' = "resolved"
       ELSE /\ pc' = "rejected"
            /\ UNCHANGED <<tables, columns>>
    /\ UNCHANGED <<data, txVars, localVars, prevCommitted>>
    /\ dbFailed' = (dbFailed \/ ~ok)
    /\ UNCHANGED <<streakVars, retryVars, restVars>>

MigrationCommitted ==
    \E k \in 1..Len(log) : log[k].op = "commit" /\ log[k].arg = "migration" /\ log[k].ok

\* The process is started again: initializeDatabase runs on the database as the
\* previous run left it.
Restart ==
    /\ pc \in {"resolved", "rejected"}
    /\ prevCommitted' = MigrationCommitted
    /\ txState' = "none"
    /\ txColumns' = {}
    /\ txStreaks' = <<>>
    /\ pc' = "start"
    /\ guildConfigExists' = FALSE
    /\ streaksExists' = FALSE
    /\ guildConfigBackup' = <<>>
    /\ streaksBackup' = <<>>
    /\ colIdx' = 0
    /\ log' = <<>>
    /\ dbFailed' = FALSE
    /\ UNCHANGED dbVars
    /\ UNCHANGED <<streakVars, retryVars, restVars>>

NextMigrate ==
    \/ \E ok \in BOOLEAN : BeginTransaction(ok)
    \/ \E ok \in BOOLEAN : CheckGuildConfigsTable(ok)
    \/ \E ok \in BOOLEAN : CheckStreaksTable(ok)
    \/ \E ok \in BOOLEAN : SkipCommit(ok)
    \/ \E ok \in BOOLEAN : BackupGuildConfigs(ok)
    \/ \E ok \in BOOLEAN : BackupStreaks(ok)
    \/ \E ok \in BOOLEAN : CheckStreakStreakEnabled(ok)
    \/ \E ok \in BOOLEAN : AddStreakStreakEnabled(ok)
    \/ \E ok \in BOOLEAN : CheckColumnToAdd(ok)
    \/ \E ok \in BOOLEAN : AddColumnToAdd(ok)
    \/ \E ok \in BOOLEAN : UpdateBestStreak(ok)
    \/ \E ok \in BOOLEAN : CheckRequiredColumn(ok)
    \/ \E ok \in BOOLEAN : AddRequiredColumn(ok)
    \/ \E ok \in BOOLEAN, applied \in BOOLEAN : CommitMigration(ok, applied)
    \/ \E ok \in BOOLEAN : InnerRollback(ok)
    \/ \E ok \in BOOLEAN : RestoreDelete(ok)
    \/ \E ok \in BOOLEAN : RestoreInsert(ok)
    \/ \E ok \in BOOLEAN : OuterRollback(ok)
    \/ \E ok \in BOOLEAN : SyncModels(ok)
    \/ Restart

---------------------------------------------------------------------------
(* The trigger word attributes: part_000 lines 31-48 and 76-85 *)

\* Strings are sequences of characters over an upper-case letter, its
\* lower-case form and the space.
Chars == {"a", "A", " "}

StringsUpTo(n) == UNION {[1..k -> Chars] : k \in 0..n}

\* JavaScript values: strings, arrays of scalars, and one value that is
\* neither (a number, null, undefined).
JSString(s) == [type |-> "string", chars |-> s, items |-> <<>>]
JSArray(xs) == [type |-> "array", chars |-> <<>>, items |-> xs]
JSOther     == [type |-> "other", chars |-> <<>>, items |-> <<>>]

Scalars(n) == {JSString(s) : s \in StringsUpTo(n)} \cup {JSOther}

\* The elements of the lists assigned to triggerWords: a word in both cases,
\* padded on either side, a second word, the blank and the empty string, and
\* a value that is no string.
Items ==
    {JSString(s) : s \in {<<>>, <<" ">>, <<"a">>, <<"A">>, <<" ", "a">>,
                          <<"a", " ">>, <<"a", "a">>}} \cup {JSOther}

ArraysUpTo(m) == UNION {{JSArray(xs) : xs \in [1..k -> Items]} : k \in 0..m}

\* String.prototype.toLowerCase
LowerChar(c) == IF c = "A" THEN "a" ELSE c

toLowerCase(s) == [i \in 1..Len(s) |-> LowerChar(s[i])]

\* String.prototype.trim
IsWhiteSpace(c) == c = " "

RECURSIVE trimStart(_)
trimStart(s) == IF s # <<>> /\ IsWhiteSpace(Head(s)) THEN trimStart(Tail(s)) ELSE s

RECURSIVE trimEnd(_)
trimEnd(s) ==
    IF s # <<>> /\ IsWhiteSpace(s[Len(s)]) THEN trimEnd(SubSeq(s, 1, Len(s) - 1)) ELSE s

trim(s) == trimEnd(trimStart(s))

\* word && typeof word === 'string'
IsNonEmptyString(word) == word.type = "string" /\ word.chars # <<>>

\* word => word.toLowerCase().trim()
NormalizeItem(word) == JSString(trim(toLowerCase(word.chars)))

MapItems(xs) == [i \in 1..Len(xs) |-> NormalizeItem(xs[i])]

\* word => word.length > 0
HasLength(word) == Len(word.chars) > 0

\* GuildConfig.triggerWords set(value): the list handed to setDataValue
triggerWordsSet(value) ==
    IF value.type = "array"
    THEN SelectSeq(MapItems(SelectSeq(value.items, IsNonEmptyString)), HasLength)
    ELSE <<>>

\* GuildConfig.triggerWords get()
triggerWordsGet(words) ==
    IF words.type = "array" THEN SelectSeq(words.items, IsNonEmptyString) ELSE <<>>

\* Streak.triggerWord set(value): !value || typeof value !== 'string'
triggerWordRejected(value) == ~IsNonEmptyString(value)

\* Faulty variant of the setter of triggerWord: the string is not trimmed.
triggerWordSet_NoTrim(value) == JSString(toLowerCase(value.chars))

\* Streak.triggerWord set(value): the string handed to setDataValue
triggerWordSet(value) == JSString(trim(toLowerCase(value.chars)))

\* No assignment is under way: a GuildConfig with the default list and a
\* Streak instance whose triggerWord is not set.
WordIdle ==
    /\ wPc = "idle"
    /\ wTarget = "none"
    /\ wValue = JSOther
    /\ gcTriggerWords = JSArray(<<>>)
    /\ stTriggerWord = JSOther
    /\ wPrev = JSOther

\* One value is about to be assigned to one of the two attributes.
WordInit ==
    /\ wPc = "assign"
    /\ \/ /\ wTarget = "triggerWords"
          /\ wValue \in ArraysUpTo(MaxWords) \cup Items
       \/ /\ wTarget = "triggerWord"
          /\ wValue \in Scalars(MaxWordLen)
    /\ gcTriggerWords = JSArray(<<>>)
    /\ stTriggerWord = JSOther
    /\ wPrev = JSOther

\* config.triggerWords = value
AssignTriggerWords ==
    /\ wPc = "assign"
    /\ wTarget = "triggerWords"
    /\ gcTriggerWords' = JSArray(triggerWordsSet(wValue))
    /\ wPc' = "assigned"
    /\ UNCHANGED <<wTarget, wValue, stTriggerWord, wPrev>>
    /\ UNCHANGED <<streakVars, retryVars, migVars, bonusVars, refreshVars>>

\* streak.triggerWord = value
AssignTriggerWord ==
    /\ wPc = "assign"
    /\ wTarget = "triggerWord"
    /\ IF triggerWordRejected(wValue)
       THEN wPc' = "threw" /\ UNCHANGED stTriggerWord
       ELSE wPc' = "assigned" /\ stTriggerWord' = triggerWordSet(wValue)
    /\ UNCHANGED <<wTarget, wValue, gcTriggerWords, wPrev>>
    /\ UNCHANGED <<streakVars, retryVars, migVars, bonusVars, refreshVars>>

\* config.triggerWords = config.triggerWords
WriteBackTriggerWords ==
    /\ wPc = "assigned"
    /\ wTarget = "triggerWords"
    /\ wPrev' = gcTriggerWords
    /\ gcTriggerWords' = JSArray(triggerWordsSet(JSArray(triggerWordsGet(gcTriggerWords))))
    /\ wPc' = "rewritten"
    /\ UNCHANGED <<wTarget, wValue, stTriggerWord>>
    /\ UNCHANGED <<streakVars, retryVars, migVars, bonusVars, refreshVars>>

\* streak.triggerWord = streak.triggerWord
WriteBackTriggerWord ==
    /\ wPc = "assigned"
    /\ wTarget = "triggerWord"
    /\ wPrev' = stTriggerWord
    /\ IF triggerWordRejected(stTriggerWord)
       THEN wPc' = "rethrew" /\ UNCHANGED stTriggerWord
       ELSE wPc' = "rewritten" /\ stTriggerWord' = triggerWordSet(stTriggerWord)
    /\ UNCHANGED <<wTarget, wValue, gcTriggerWords>>
    /\ UNCHANGED <<streakVars, retryVars, migVars, bonusVars, refreshVars>>

NextWords ==
    \/ AssignTriggerWords
    \/ AssignTriggerWord
    \/ WriteBackTriggerWords
    \/ WriteBackTriggerWord

---------------------------------------------------------------------------
(* The progressive success bonus of a raid: README.md lines 41-48 *)

\* Faulty variant: a target of exactly 25 streaks is put in the tier below.
progressiveBonus_Late25(n) ==
    IF n >= 100 THEN 15
    ELSE IF n >= 75 THEN 12
    ELSE IF n >= 50 THEN 9
    ELSE IF n > 25 THEN 6
    ELSE IF n >= 10 THEN 3
    ELSE 0

\* The additional bonus, in percent, for a target with n streaks.
progressiveBonus(n) ==
    IF n >= 100 THEN 15
    ELSE IF n >= 75 THEN 12
    ELSE IF n >= 50 THEN 9
    ELSE IF n >= 25 THEN 6
    ELSE IF n >= 10 THEN 3
    ELSE 0

BonusIdle ==
    /\ bPc = "idle"
    /\ targetCount = 0
    /\ bonus = NoValue

\* A raid on a target with any streak count.
BonusInit ==
    /\ bPc = "call"
    /\ targetCount \in 0..MaxTargetCount
    /\ bonus = NoValue

ComputeBonus ==
    /\ bPc = "call"
    /\ bonus' = progressiveBonus(targetCount)
    /\ bPc' = "done"
    /\ UNCHANGED targetCount
    /\ UNCHANGED <<streakVars, retryVars, migVars, wordVars, refreshVars>>

NextBonus == ComputeBonus

---------------------------------------------------------------------------
(* The refresh command: src/commands/refresh.js *)

NoName == "none"
CommandNames == {"n1", "n2"}

\* A file of the commands directory: whether its name ends in .js, whether
\* require() of it returns, and what the module it exports has.
File(js, loads, hasData, name, execute, json) ==
    [js |-> js, loads |-> loads, data |-> hasData, name |-> name,
     execute |-> execute, json |-> json]

\* refresh.js itself: lines 3-9
RefreshFile == File(TRUE, TRUE, TRUE, "refresh", TRUE, TRUE)

Files ==
    { File(FALSE, TRUE, TRUE, "n1", TRUE, TRUE),      \* not a .js file
      File(TRUE, FALSE, FALSE, NoName, FALSE, FALSE), \* require() throws
      File(TRUE, TRUE, FALSE, NoName, TRUE, FALSE),   \* no data
      File(TRUE, TRUE, TRUE, NoName, TRUE, TRUE),     \* data without name
      File(TRUE, TRUE, TRUE, "n1", FALSE, TRUE),      \* no execute
      File(TRUE, TRUE, TRUE, "n1", TRUE, TRUE),
      File(TRUE, TRUE, TRUE, "n1", TRUE, FALSE),      \* data.toJSON() throws
      File(TRUE, TRUE, TRUE, "n2", TRUE, TRUE) }

Directories ==
    UNION {{Append(fs, RefreshFile) : fs \in [1..k -> Files]} : k \in 0..MaxFiles}

\* An entry of the Map client.commands: the key and the module, named by the
\* position of its file in the directory (0: a module loaded at startup).
CacheEntry(name, file) == [name |-> name, file |-> file]

\* The command handler found refresh in the Map to call its execute.
StartupCaches ==
    { <<CacheEntry("refresh", 0)>>,
      <<CacheEntry("n1", 0), CacheEntry("refresh", 0)>> }

EntryNames(m) == [i \in 1..Len(m) |-> m[i].name]

Reply(content, ok) == [content |-> content, ok |-> ok]

\* file => file.endsWith('.js')
filterJs(dir) == SelectSeq([i \in 1..Len(dir) |-> i], LAMBDA i : dir[i].js)

\* Faulty variant of the check of line 36: execute is not asked for.
MissingProperties_DataOnly(command) ==
    ~command.data \/ command.name = NoName

\* !command.data || !command.data.name || !command.execute
MissingProperties(command) ==
    ~command.data \/ command.name = NoName \/ ~command.execute

\* Faulty variant of the check of line 14: every member passes.
HasAdministrator_Anyone(m) == TRUE

\* interaction.member.permissions.has(PermissionFlagsBits.Administrator)
HasAdministrator(m) == m = "admin"

\* Map.prototype.set: a key that is present keeps its position
MapSet(m, key, value) ==
    IF \E i \in 1..Len(m) : m[i].name = key
    THEN [i \in 1..Len(m) |-> IF m[i].name = key THEN CacheEntry(key, value) ELSE m[i]]
    ELSE Append(m, CacheEntry(key, value))

\* execute is suspended at an await: other handlers of the process can run
AtAwait ==
    rfPc \in {"defer", "denyReply", "register", "successReply", "failReply", "catchReply"}

\* interaction.deferReply resolved: editReply throws on an interaction that
\* was neither deferred nor replied to
Deferred == \E k \in 1..Len(replies) : replies[k].content = "defer" /\ replies[k].ok

RefreshIdle ==
    /\ rfPc = "idle"
    /\ member = "none"
    /\ directory = <<RefreshFile>>
    /\ clientCommands = <<CacheEntry("refresh", 0)>>
    /\ appCommands = <<"refresh">>
    /\ commandFiles = <<>>
    /\ fileIdx = 0
    /\ commands = <<>>
    /\ replies = <<>>
    /\ seen = <<>>
    /\ commands0 = <<>>
    /\ appCommands0 = <<>>

\* execute(interaction) was called: any member, any directory, the Map as
\* the startup filled it and the commands it registered.
RefreshInit ==
    /\ rfPc = "defer"
    /\ member \in {"admin", "member", "none"}
    /\ directory \in Directories
    /\ clientCommands \in StartupCaches
    /\ appCommands = EntryNames(clientCommands)
    /\ commandFiles = <<>>
    /\ fileIdx = 0
    /\ commands = <<>>
    /\ replies = <<>>
    /\ seen = clientCommands
    /\ commands0 = clientCommands
    /\ appCommands0 = appCommands

\* line 11
DeferReply(ok) ==
    /\ rfPc = "defer"
    /\ replies' = Append(replies, Reply("defer", ok))
    /\ rfPc' = IF ok THEN "check" ELSE "catchReply"
    /\ UNCHANGED <<member, directory, clientCommands, appCommands, commandFiles,
                   fileIdx, commands, seen, commands0, appCommands0>>
    /\ UNCHANGED <<streakVars, retryVars, migVars, wordVars, bonusVars>>

\* line 14: interaction.member is null outside a guild
CheckPermission ==
    /\ rfPc = "check"
    /\ rfPc' = IF member = "none" THEN "catchReply"
               ELSE IF ~HasAdministrator(member) THEN "denyReply"
               ELSE "clear"
    /\ UNCHANGED <<member, directory, clientCommands, appCommands, commandFiles,
                   fileIdx, commands, replies, seen, commands0, appCommands0>>
    /\ UNCHANGED <<streakVars, retryVars, migVars, wordVars, bonusVars>>

\* lines 15-19
DenyReply(ok) ==
    /\ rfPc = "denyReply"
    /\ replies' = Append(replies, Reply("denied", ok))
    /\ rfPc' = IF ok THEN "done" ELSE "catchReply"
    /\ UNCHANGED <<member, directory, clientCommands, appCommands, commandFiles,
                   fileIdx, commands, seen, commands0, appCommands0>>
    /\ UNCHANGED <<streakVars, retryVars, migVars, wordVars, bonusVars>>

\* line 23
ClearCache ==
    /\ rfPc = "clear"
    /\ clientCommands' = <<>>
    /\ rfPc' = "readdir"
    /\ UNCHANGED <<member, directory, appCommands, commandFiles, fileIdx, commands,
                   replies, seen, commands0, appCommands0>>
    /\ UNCHANGED <<streakVars, retryVars, migVars, wordVars, bonusVars>>

\* line 29
ReadDir(ok) ==
    /\ rfPc = "readdir"
    /\ IF ok
       THEN /\ commandFiles' = filterJs(directory)
            /\ fileIdx' = 1
            /\ rfPc' = "load"
       ELSE /\ rfPc' = "catchReply"
            /\ UNCHANGED <<commandFiles, fileIdx>>
    /\ UNCHANGED <<member, directory, clientCommands, appCommands, commands,
                   replies, seen, commands0, appCommands0>>
    /\ UNCHANGED <<streakVars, retryVars, migVars, wordVars, bonusVars>>

\* lines 31-46, one turn of the loop
LoadCommand ==
    /\ rfPc = "load"
    /\ fileIdx <= Len(commandFiles)
    /\ LET file == commandFiles[fileIdx]
           command == directory[file]
       IN  clientCommands' =
               IF ~command.loads \/ MissingProperties(command)
               THEN clientCommands
               ELSE MapSet(clientCommands, command.name, file)
    /\ fileIdx' = fileIdx + 1
    /\ UNCHANGED <<rfPc, member, directory, appCommands, commandFiles, commands,
                   replies, seen, commands0, appCommands0>>
    /\ UNCHANGED <<streakVars, retryVars, migVars, wordVars, bonusVars>>

\* lines 49-52, and the call of line 55
BuildCommands ==
    /\ rfPc = "load"
    /\ fileIdx > Len(commandFiles)
    /\ IF \E i \in 1..Len(clientCommands) : ~directory[clientCommands[i].file].json
       THEN /\ rfPc' = "catchReply"
            /\ UNCHANGED commands
       ELSE /\ commands' = EntryNames(clientCommands)
            /\ rfPc' = "register"
    /\ UNCHANGED <<member, directory, clientCommands, appCommands, commandFiles,
                   fileIdx, replies, seen, commands0, appCommands0>>
    /\ UNCHANGED <<streakVars, retryVars, migVars, wordVars, bonusVars>>

\* line 55
RegisterCommands(ok) ==
    /\ rfPc = "register"
    /\ appCommands' = IF ok THEN commands ELSE appCommands
    /\ rfPc' = IF ok THEN "successReply" ELSE "failReply"
    /\ UNCHANGED <<member, directory, clientCommands, commandFiles, fileIdx,
                   commands, replies, seen, commands0, appCommands0>>
    /\ UNCHANGED <<streakVars, retryVars, migVars, wordVars, bonusVars>>

\* lines 56-59: a throw is caught by the catch of line 60
SuccessReply(ok) ==
    /\ rfPc = "successReply"
    /\ replies' = Append(replies, Reply("success", ok))
    /\ rfPc' = IF ok THEN "done" ELSE "failReply"
    /\ UNCHANGED <<member, directory, clientCommands, appCommands, commandFiles,
                   fileIdx, commands, seen, commands0, appCommands0>>
    /\ UNCHANGED <<streakVars, retryVars, migVars, wordVars, bonusVars>>

\* lines 60-66
FailReply(ok) ==
    /\ rfPc = "failReply"
    /\ replies' = Append(replies, Reply("registerFailed", ok))
    /\ rfPc' = IF ok THEN "done" ELSE "catchReply"
    /\ UNCHANGED <<member, directory, clientCommands, appCommands, commandFiles,
                   fileIdx, commands, seen, commands0, appCommands0>>
    /\ UNCHANGED <<streakVars, retryVars, migVars, wordVars, bonusVars>>

\* lines 67-77
CatchReply(ok) ==
    /\ rfPc = "catchReply"
    /\ ok => Deferred
    /\ replies' = Append(replies, Reply("error", ok))
    /\ rfPc' = "done"
    /\ UNCHANGED <<member, directory, clientCommands, appCommands, commandFiles,
                   fileIdx, commands, seen, commands0, appCommands0>>
    /\ UNCHANGED <<streakVars, retryVars, migVars, wordVars, bonusVars>>

\* Another interaction is handled while execute is suspended: its handler
\* looks its command up in client.commands.
OtherHandlerReads ==
    /\ AtAwait
    /\ seen # clientCommands
    /\ seen' = clientCommands
    /\ UNCHANGED <<rfPc, member, directory, clientCommands, appCommands, commandFiles,
                   fileIdx, commands, replies, commands0, appCommands0>>
    /\ UNCHANGED <<streakVars, retryVars, migVars, wordVars, bonusVars>>

NextRefresh ==
    \/ \E ok \in BOOLEAN : DeferReply(ok)
    \/ CheckPermission
    \/ \E ok \in BOOLEAN : DenyReply(ok)
    \/ ClearCache
    \/ \E ok \in BOOLEAN : ReadDir(ok)
    \/ LoadCommand
    \/ BuildCommands
    \/ \E ok \in BOOLEAN : RegisterCommands(ok)
    \/ \E ok \in BOOLEAN : SuccessReply(ok)
    \/ \E ok \in BOOLEAN : FailReply(ok)
    \/ \E ok \in BOOLEAN : CatchReply(ok)
    \/ OtherHandlerReads

---------------------------------------------------------------------------
vars == <<streakVars, retryVars, migVars, restVars>>

RestIdle == WordIdle /\ BonusIdle /\ RefreshIdle

Init == StreakInit /\ RetryInit /\ MigIdle /\ DbEmpty /\ RestIdle

\* One assignment to a trigger word attribute, of any value of the bounded sets.
InitWords ==
    StreakInit /\ RetryInit /\ MigIdle /\ DbEmpty /\ WordInit /\ BonusIdle /\ RefreshIdle

SpecWords == InitWords /\ [][NextWords]_vars

\* One computation of the progressive bonus, for any target.
InitBonus ==
    StreakInit /\ RetryInit /\ MigIdle /\ DbEmpty /\ WordIdle /\ BonusInit /\ RefreshIdle

SpecBonus == InitBonus /\ [][NextBonus]_vars

\* One call of execute of the refresh command.
InitRefresh ==
    StreakInit /\ RetryInit /\ MigIdle /\ DbEmpty /\ WordIdle /\ BonusIdle /\ RefreshInit

SpecRefresh == InitRefresh /\ [][NextRefresh]_vars

SpecStreak == Init /\ [][NextStreak]_vars

SpecRetry == Init /\ [][NextRetry]_vars

\* A start of the process on any of the databases it may find.
InitMigrate == StreakInit /\ RetryInit /\ MigInit /\ RestIdle

SpecMigrate == InitMigrate /\ [][NextMigrate]_vars

\* The whole program.
Next == NextStreak \/ NextRetry \/ NextMigrate \/ NextWords \/ NextBonus \/ NextRefresh

Spec == InitMigrate /\ [][Next]_vars

\* The event loop runs every continuation that is ready: an attempt that
\* terminates and a timer that was set are followed by the next step.
FairSpecRetry == Init /\ [][NextRetry]_vars /\ WF_vars(NextRetry)

---------------------------------------------------------------------------
(* Claims about the Streak model, checked under SpecStreak *)

\* C1: in every row of Streaks, bestStreak >= count after every save, whatever
\* non-negative values the saves gave count (increment, gamble, raid, reset),
\* starting from a freshly created record.
C1_BestAtLeastCount ==
    \A i \in 1..Len(streaks) : streaks[i].bestStreak >= streaks[i].count

\* A record whose count was raised to the largest value, which lifted
\* bestStreak, and was lowered again by a later save.
C1_Witness ==
    \E i \in 1..Len(streaks) :
        /\ streaks[i].bestStreak = MaxCount
        /\ streaks[i].count < streaks[i].bestStreak

\* C2: at most one row of Streaks exists for any (guildId, userId, triggerWord),
\* also when two create-if-absent requests for the same triple interleave.
C2_OneRowPerTriple ==
    \A i, j \in 1..Len(streaks) :
        i # j => ~SameTriple(streaks[i],
                             <<streaks[j].guildId, streaks[j].userId, streaks[j].triggerWord>>)

\* C10: bestStreak never decreases from one save to the next, and it changes
\* only by rising to the new count, when the new count exceeds it.
C10_BestMonotone ==
    [][\A i \in 1..Len(streaks) :
          /\ streaks'[i].bestStreak >= streaks[i].bestStreak
          /\ streaks'[i].bestStreak # streaks[i].bestStreak =>
                /\ streaks'[i].count > streaks[i].bestStreak
                /\ streaks'[i].bestStreak = streaks'[i].count]_vars

\* A record that once rose above the default and whose count is back at 0.
C10_Witness ==
    \E i \in 1..Len(streaks) :
        /\ streaks[i].bestStreak > DefaultBestStreak
        /\ streaks[i].count = 0

\* C11: a save that sets count and streakStreak to 0 and clears
\* lastStreakDate (reset) leaves bestStreak of the record as it was, whatever
\* the record held before.
C11_ResetKeepsBest ==
    [][\A i \in 1..Len(streaks) :
          (/\ streaks'[i].count = 0
           /\ streaks'[i].streakStreak = 0
           /\ streaks'[i].lastStreakDate = Null) =>
              streaks'[i].bestStreak = streaks[i].bestStreak]_vars

\* A record that had reached the largest count, reset.
C11_Witness ==
    \E i \in 1..Len(streaks) :
        /\ streaks[i].count = 0
        /\ streaks[i].streakStreak = 0
        /\ streaks[i].lastStreakDate = Null
        /\ streaks[i].bestStreak = MaxCount

---------------------------------------------------------------------------
(* Claims about the trigger word attributes, checked under SpecWords *)

TriggerWordsAssigned == wTarget = "triggerWords" /\ wPc \in {"assigned", "rewritten"}

\* C12: after an assignment to GuildConfig.triggerWords every stored word is
\* non-empty, has no upper-case letter and no white space at either end, and
\* no word is stored twice.
C12_StoredIsNormalizedSet ==
    TriggerWordsAssigned =>
        /\ \A i \in 1..Len(gcTriggerWords.items) :
              LET w == gcTriggerWords.items[i].chars
              IN  /\ w # <<>>
                  /\ \A k \in 1..Len(w) : w[k] # "A"
                  /\ ~IsWhiteSpace(w[1])
                  /\ ~IsWhiteSpace(w[Len(w)])
        /\ \A i, j \in 1..Len(gcTriggerWords.items) :
              i # j => gcTriggerWords.items[i] # gcTriggerWords.items[j]

\* t is s with the case of some letters changed
CaseVariant(s, t) ==
    /\ Len(s) = Len(t)
    /\ \A k \in 1..Len(s) : s[k] = t[k] \/ {s[k], t[k]} = {"a", "A"}

\* t is s with white space added at its ends
Padded(s, t) ==
    \E i \in 0..Len(t) :
        /\ i + Len(s) <= Len(t)
        /\ \A k \in 1..Len(t) :
              IF k <= i \/ k > i + Len(s) THEN IsWhiteSpace(t[k]) ELSE t[k] = s[k - i]

---------------------------------------------------------------------------
(* Claims about the progressive bonus, checked under SpecBonus *)

\* The tiers as the claim states them: first and last count, bonus in percent.
StatedTiers ==
    <<[lo |-> 10, hi |-> 24, percent |-> 3],
      [lo |-> 25, hi |-> 49, percent |-> 6],
      [lo |-> 50, hi |-> 74, percent |-> 9],
      [lo |-> 75, hi |-> 99, percent |-> 12],
      [lo |-> 100, hi |-> NoValue, percent |-> 15]>>

InTier(t, n) == n >= t.lo /\ (t.hi = NoValue \/ n <= t.hi)

TiersOf(n) == {k \in 1..Len(StatedTiers) : InTier(StatedTiers[k], n)}

---------------------------------------------------------------------------
(* Claims about the refresh command, checked under SpecRefresh *)

\* C19: when the invoking member lacks the Administrator permission,
\* client.commands and the registered commands stay as they were when execute
\* was called, and the replies are the deferral and the permission-denied
\* message; another message (the error message of the outer catch) is sent
\* only after a reply call failed.
C19_NonAdminNoEffect ==
    member = "member" =>
        /\ clientCommands = commands0
        /\ appCommands = appCommands0
        /\ \A k \in 1..Len(replies) :
              /\ replies[k].content \in {"defer", "denied", "error"}
              /\ replies[k].content = "error" => \E j \in 1..(k - 1) : ~replies[j].ok
        /\ (rfPc = "done" /\ \A k \in 1..Len(replies) : replies[k].ok) =>
              replies = <<Reply("defer", TRUE), Reply("denied", TRUE)>>

\* A member without the permission was answered; two commands were cached.
C19_Witness ==
    /\ member = "member"
    /\ rfPc = "done"
    /\ replies = <<Reply("defer", TRUE), Reply("denied", TRUE)>>
    /\ Len(clientCommands) = 2
    /\ Len(directory) > 1

\* The reload loop went through every file of commandFiles.
LoopDone == fileIdx > Len(commandFiles)

\* The file ends in .js, loads, and exports data, data.name and execute.
ValidFile(f) ==
    LET c == directory[f]
    IN  c.js /\ c.loads /\ c.data /\ c.name # NoName /\ c.execute

ValidFiles == {f \in 1..Len(directory) : ValidFile(f)}

\* application.commands.set was called with the list commands.
RegistrationSent ==
    \/ rfPc \in {"successReply", "failReply"}
    \/ \E k \in 1..Len(replies) : replies[k].content \in {"success", "registerFailed"}

\* C20 as stated: after the reload client.commands has exactly one entry per
\* valid command file, keyed by its data.name, and the list sent for
\* registration is the commands of client.commands.
C20_OneEntryPerFile ==
    LoopDone =>
        /\ \A f \in ValidFiles :
              \E i \in 1..Len(clientCommands) :
                  clientCommands[i] = CacheEntry(directory[f].name, f)
        /\ Len(clientCommands) = Cardinality(ValidFiles)
        /\ RegistrationSent => commands = EntryNames(clientCommands)

\* C20, amended: after the reload client.commands has exactly one entry per
\* data.name of the valid command files, holding the last valid file of that
\* name in directory order; files that fail to load or lack data, data.name
\* or execute leave no entry and do not stop the files after them from being
\* loaded; and the list sent for registration is the commands of
\* client.commands, in its order.
C20_OneEntryPerName ==
    LoopDone =>
        /\ \A f \in ValidFiles :
              \E i \in 1..Len(clientCommands) : clientCommands[i].name = directory[f].name
        /\ \A i \in 1..Len(clientCommands) :
              LET e == clientCommands[i]
              IN  /\ e.file \in ValidFiles
                  /\ directory[e.file].name = e.name
                  /\ \A g \in ValidFiles : directory[g].name = e.name => g <= e.file
        /\ \A i, j \in 1..Len(clientCommands) :
              i # j => clientCommands[i].name # clientCommands[j].name
        /\ RegistrationSent =>
              /\ commands = EntryNames(clientCommands)
              /\ rfPc = "successReply" => appCommands = commands

\* A file that fails to load precedes a valid one: the valid one and
\* refresh.js are cached and registered.
C20_Witness ==
    /\ rfPc = "successReply"
    /\ Len(directory) = 3
    /\ ~directory[1].loads
    /\ clientCommands = <<CacheEntry("n1", 2), CacheEntry("refresh", 3)>>
    /\ appCommands = <<"n1", "refresh">>

\* application.commands.set resolved: the success reply is attempted next,
\* and only then.
RegistrationSucceeded ==
    \/ rfPc = "successReply"
    \/ \E k \in 1..Len(replies) : replies[k].content = "success"

\* C21: the success message is sent only after a registration that succeeded,
\* and the 'Failed to register refreshed commands' message only after one
\* that failed, never after one that succeeded.
C21_ReplyMatchesRegistration ==
    \A k \in 1..Len(replies) :
        /\ replies[k].content = "success" => appCommands = commands
        /\ (replies[k].content = "registerFailed" /\ replies[k].ok) =>
              ~RegistrationSucceeded

\* C22: whatever another handler of the process finds in client.commands
\* while execute is suspended is the Map as it was before clear() or the Map
\* as the completed reload loop left it, never the emptied or partly
\* refilled Map.
C22_RebuildAtomic ==
    \/ seen = commands0
    \/ LoopDone /\ seen = clientCommands

---------------------------------------------------------------------------
(* Claims about withRetry, checked under SpecRetry and FairSpecRetry *)

RetryDone == rPc \in {"returned", "thrown"}

AllConnectionFailures ==
    \A k \in 1..Len(rHistory) :
        rHistory[k].kind = "error" /\ rHistory[k].name \in ConnectionErrors

\* C6: operation is invoked at most maxRetries times; when every attempt failed
\* with a connection error it was invoked exactly maxRetries times and withRetry
\* throws the error of the last attempt; and every call of withRetry ends.
C6_BoundedRetry ==
    /\ [](Len(rHistory) <= maxRetries)
    /\ [](RetryDone /\ AllConnectionFailures =>
            /\ rPc = "thrown"
            /\ Len(rHistory) = maxRetries
            /\ Len(rHistory) > 0 => rResult = rHistory[Len(rHistory)])
    /\ [](rPc # "idle" => <>RetryDone)

\* Every one of the default's three attempts failed with a connection error
\* and withRetry has thrown.
C6_Witness ==
    /\ rPc = "thrown"
    /\ maxRetries = retryConfigMaxRetries
    /\ Len(rHistory) = retryConfigMaxRetries
    /\ AllConnectionFailures

\* C7: an attempt that fails with an error that is none of the four connection
\* errors is the last one: withRetry throws that error at once, without a
\* delay and without invoking operation again, whatever the attempt number.
C7_OtherErrorFatal ==
    \A k \in 1..Len(rHistory) :
        (rHistory[k].kind = "error" /\ rHistory[k].name \notin ConnectionErrors) =>
            /\ k = Len(rHistory)
            /\ rPc = "thrown"
            /\ rResult = rHistory[k]
            /\ Len(rDelays) = k - 1

\* The second attempt, after one connection error, failed with another error.
C7_Witness ==
    /\ Len(rHistory) = 2
    /\ rHistory[1].name \in ConnectionErrors
    /\ rHistory[2].kind = "error"
    /\ rHistory[2].name \notin ConnectionErrors
    /\ maxRetries > 2

\* C8: the wait after the k-th failed attempt, k < maxRetries, is retryDelay * k,
\* and no wait follows the failure of the last attempt.
C8_LinearBackoff ==
    /\ \A k \in 1..Len(rDelays) : rDelays[k] = retryDelay * k
    /\ rPc = "wait" =>
          /\ rWait = retryDelay * attempt
          /\ attempt < maxRetries
          /\ Len(rDelays) = attempt - 1
    /\ rPc \in {"loop", "returned", "thrown"} /\ Len(rHistory) > 0 =>
          Len(rDelays) = attempt - 1
    /\ rPc = "thrown" => Len(rDelays) = Len(rHistory) - (IF Len(rHistory) > 0 THEN 1 ELSE 0)

\* Two waits, of 1000 ms and of 2000 ms, and the third and last attempt failed.
C8_Witness ==
    /\ rPc = "thrown"
    /\ maxRetries = 3
    /\ rDelays = <<1000, 2000>>
    /\ rHistory[3].name \in ConnectionErrors

\* C15: an attempt that succeeds is the last invocation and withRetry returns
\* its result; a success on attempt k after k-1 connection errors is what
\* withRetry returns, not one of the earlier errors.
C15_SuccessReturned ==
    /\ \A k \in 1..Len(rHistory) :
          rHistory[k].kind = "ok" =>
              /\ k = Len(rHistory)
              /\ rPc = "returned"
              /\ rResult = rHistory[k]
    /\ rPc = "returned" =>
          /\ Len(rHistory) = attempt
          /\ rResult = Success(attempt)
          /\ \A j \in 1..(attempt - 1) :
                rHistory[j].kind = "error" /\ rHistory[j].name \in ConnectionErrors

\* The third of three attempts succeeded after two connection errors.
C15_Witness ==
    /\ rPc = "returned"
    /\ maxRetries = 3
    /\ Len(rHistory) = 3
    /\ rResult.at = 3

---------------------------------------------------------------------------
(* Claims about the migration, checked under SpecMigrate *)

\* A statement of the migration proper (an ALTER, the UPDATE, the commit of
\* line 210) failed in this run, after the backups were taken.
FailedAfterBackup ==
    \E k \in 1..Len(log) :
        /\ ~log[k].ok
        /\ \/ log[k].op \in {"addColumn", "update"}
           \/ log[k].op = "commit" /\ log[k].arg = "migration"

\* migrateDatabase is over: it returned (sync is next or done) or it threw.
MigrationOver == pc \in {"sync", "resolved", "rejected"}

SyncExecuted == \E k \in 1..Len(log) : log[k].op = "sync"

\* C3: when a step of the migration fails after the backups were taken, the
\* restore succeeding or not, initializeDatabase rejects and sync never runs.
C3_FailureIsFatal ==
    FailedAfterBackup => ~SyncExecuted /\ pc # "resolved"

\* C4: a run of migrateDatabase on a schema on which the previous run
\* committed issues no ADD COLUMN statement and commits. The runs meant are
\* those in which the database answers every query and statement.
C4_SecondRunAddsNothing ==
    (prevCommitted /\ ~dbFailed) =>
        /\ \A k \in 1..Len(log) : log[k].op # "addColumn"
        /\ MigrationOver => MigrationCommitted

\* A run on the schema the previous run committed has committed in its turn,
\* with every query answered, and the startup has resolved.
C4_Witness ==
    /\ prevCommitted
    /\ ~dbFailed
    /\ MigrationCommitted
    /\ pc = "resolved"

\* C5: within one run, no ADD COLUMN is issued for a column the table has,
\* a column added earlier in the same transaction included. Stated for the
\* runs in which the database answers every query and statement.
C5_AddsOnlyAbsent ==
    ~dbFailed =>
        \A k \in 1..Len(log) : log[k].op = "addColumn" => ~log[k].arg[3]

\* C9: after a failure in mid-migration the transaction is rolled back, then
\* the restore of GuildConfigs and the restore of Streaks are both attempted,
\* the second also when the first fails. Stated for the runs whose rollback
\* succeeded.
C9_RollbackThenRestoreBoth ==
    (FailedAfterBackup /\ MigrationOver
        /\ \E r \in 1..Len(log) : log[r].op = "rollback" /\ log[r].ok) =>
    \E r, g, s \in 1..Len(log) :
        /\ r < g /\ g < s
        /\ log[r].op = "rollback"
        /\ log[g].op = "delete" /\ log[g].arg = GC
        /\ log[s].op = "delete" /\ log[s].arg = ST

\* C16: after a run of the migration that commits, every row of Streaks has
\* bestStreak >= count, whatever the rows were before; and from the UPDATE on
\* the same holds of the rows as the transaction sees them, also where
\* bestStreak was added by this run with its default of 1.
C16_CommittedRowsSound ==
    /\ MigrationCommitted =>
          \A i \in 1..Len(data[ST]) : data[ST][i].bestStreak >= data[ST][i].count
    /\ pc \in {"checkRequiredColumn", "addRequiredColumn", "commit"} =>
          \A i \in 1..Len(txStreaks) : txStreaks[i].bestStreak >= txStreaks[i].count

\* A committed run that found a row with bestStreak below count and raised it.
C16_Witness ==
    /\ MigrationCommitted
    /\ Len(streaksBackup) > 0
    /\ streaksBackup[1].bestStreak < streaksBackup[1].count
    /\ data[ST][1].bestStreak = data[ST][1].count

\* C17: when migrateDatabase ends through its failure path, the rows of
\* GuildConfigs and of Streaks are the rows of the snapshot.
C17_FailedMigrationKeepsRows ==
    (FailedAfterBackup /\ MigrationOver) =>
        /\ data[GC] = guildConfigBackup
        /\ data[ST] = streaksBackup

\* C18: commit and rollback are never called on a transaction that is
\* finished, and when migrateDatabase is over the transaction it opened is
\* committed or rolled back.
C18_FinishedExactlyOnce ==
    /\ \A k \in 1..Len(log) : log[k].op = "rollback" => log[k].arg = "open"
    /\ (MigrationOver /\ txState # "none") => txState \in {"commit", "rollback"}

=============================================================================
